---- MODULE Spec2Model ----
(***************************************************************************)
(* Session memory of the chatbot backend: app/memory.py (MemoryService, a  *)
(* cachetools.TTLCache of ConversationBufferMemory objects) and the chat   *)
(* routes of app/routes/chat.py that use it.                               *)
(*                                                                         *)
(* The routes are asyncio coroutines on one event loop: a handler runs     *)
(* without interruption between two awaits.  chat() awaits once, on the    *)
(* provider call, so it is two atomic steps: ChatStart (up to the await)   *)
(* and ChatReturn / ChatFail (from the await to the response).             *)
(*                                                                         *)
(* Time is an integer clock.  TTLCache reads its timer on every operation, *)
(* so a handler that calls the cache twice may see two different times:    *)
(* the handlers take the advance d of the clock between their calls as an  *)
(* input.                                                                  *)
(*                                                                         *)
(* TTLCache is the one of cachetools 5: a link is live while               *)
(* timer() < link.expires, link.expires is set by __setitem__ alone,       *)
(* __getitem__ and __setitem__ move the key to the end of the links (the   *)
(* LRU order popitem follows), and __setitem__ and __len__ purge the       *)
(* expired links first.                                                    *)
(*                                                                         *)
(* LLMService (app/llm.py) holds the provider object that answers the      *)
(* sends; POST /llm/switch (app/routes/llm.py) replaces it.  It shares no   *)
(* state with MemoryService.  Spec is the chat and memory routes under the  *)
(* provider made at import; SpecLLM is the sends and the provider switches; *)
(* SpecLRU is Spec started from a full cache.                               *)
(***************************************************************************)
EXTENDS Integers, Sequences, FiniteSets, TLC

\* Number of chat requests of a run; requests are numbered in arrival order.
MaxCalls == 3
\* Last instant of the clock.
MaxTime == 3
\* Number of provider objects made by switches in a run.
MaxSwitches == 1
\* ttl= of the TTLCache: read from the environment (3600 when it is not set);
\* the configuration checked is MEMORY_TTL_SECONDS=2.
MEMORY_TTL_SECONDS == 2
\* maxsize= of the TTLCache: read from the environment (1000 when it is not
\* set); the configuration checked is MAX_CACHE_SIZE=2.
MAX_CACHE_SIZE == 2

\* ChatRequest.message: Field(min_length=1, max_length=4000)
min_length == 1
max_length == 4000

\* The lengths of the messages requests carry: the longest valid one and the
\* first length beyond each end of the valid range.
MessageLengths == {min_length - 1, max_length, max_length + 1}

\* pydantic's validation of ChatRequest.message
ValidMessage(n) == min_length <= n /\ n <= max_length

\* Strings are sequences of characters.  user.id is a UUID: str(user.id) has a
\* fixed length (two characters here) and no "_".
Users == {<<"0", "1">>, <<"0", "2">>}
\* session_id matches ^[a-zA-Z0-9_-]+$: it is not empty and may hold "_".
RawIds == {<<"a">>, <<"1", "_", "a">>}
Calls == 1..MaxCalls

\* mutant: the key is the raw session id, not scoped by the user
user_session_id_Raw(u, s) == s

\* f"user_{user.id}_{session_id}"
user_session_id(u, s) == <<"u", "s", "e", "r", "_">> \o u \o <<"_">> \o s

Keys == {user_session_id(u, s) : u \in Users, s \in RawIds}

\* A turn of a transcript: HumanMessage(content=request.message) or
\* AIMessage(content=response_content) of chat request c.
HumanMessage(c) == [role |-> "human", call |-> c]
AIMessage(c) == [role |-> "ai", call |-> c]

VARIABLES
    now,       \* the cache's timer (time.monotonic)
    cache,     \* TTLCache: sequence of [key, expires, obj], least recently used first
    heap,      \* the ConversationBufferMemory objects ever made: obj -> chat_memory.messages
    pc,        \* per chat request: "idle", "waiting" (at the await), "done" (200),
               \* "failed" (500, the provider raised), "error" (500, get_memory raised)
    ukey,      \* per chat request: its user_session_id
    memory,    \* per chat request: the object its local variable memory refers to (0: none)
    sent,      \* per chat request: current_messages, as passed to the provider
    returned,  \* history: the chat requests whose provider call returned, in that order
    accessed,  \* history: the cached keys as [key, created, at], ordered by their last
               \* access (lookup or append) at, the latest last
    request,   \* per chat request: the authenticated user and request.session_id
    lookups,   \* history: the cached keys, ordered by their last get_memory call,
               \* the latest last
    invoked,   \* per chat request: the provider objects whose generate_response it
               \* has awaited, in that order
    llm_service,   \* LLMService: [provider_name, provider]
    switch_result  \* history: what the last call of switch_provider returned

vars == <<now, cache, heap, pc, ukey, memory, sent, returned, accessed, request,
          lookups, invoked, llm_service, switch_result>>

\* the state of the provider service, which the chat and memory routes leave alone
llm_vars == <<llm_service, switch_result>>

----------------------------------------------------------------------------
(* cachetools.TTLCache, as used by MemoryService *)

HasKey(c, k) == \E i \in 1..Len(c) : c[i].key = k

Entry(c, k) == c[CHOOSE i \in 1..Len(c) : c[i].key = k]

\* link.expires of a link made at time t
ExpiresAt(t) == t + MEMORY_TTL_SECONDS

\* mutant: an expired link is kept for two more seconds
Fresh_Late(e, t) == t < e.expires + 2

\* not expired at time t: timer() < link.expires
Fresh(e, t) == t < e.expires

\* mutant: a key is found as long as it has a link, expired or not
TTLCache_contains_Linked(c, k, t) == HasKey(c, k)

\* key in cache
TTLCache_contains(c, k, t) == HasKey(c, k) /\ Fresh(Entry(c, k), t)

\* mutant: the links that expire within the next second are dropped too
TTLCache_expire_Early(c, t) == SelectSeq(c, LAMBDA e : Fresh(e, t + 1))

\* expire(time): drop every link that is no longer fresh
TTLCache_expire(c, t) == SelectSeq(c, LAMBDA e : Fresh(e, t))

\* len(cache): expire(time), then the number of links left
TTLCache_len(c, t) == Len(TTLCache_expire(c, t))

\* mutant: a lookup leaves the key where it is in the links
MoveToEnd_Stay(c, k) == c

\* __getlink: OrderedDict.move_to_end(key)
MoveToEnd(c, k) ==
    IF HasKey(c, k)
    THEN Append(SelectSeq(c, LAMBDA e : e.key # k), Entry(c, k))
    ELSE c

\* mutant: the most recently used key is removed
TTLCache_popitem_MRU(c, t) ==
    SubSeq(TTLCache_expire(c, t), 1, Len(TTLCache_expire(c, t)) - 1)

\* popitem(): expire, then remove the first key of the links (least recently used)
TTLCache_popitem(c, t) == Tail(TTLCache_expire(c, t))

\* mutant: nothing is evicted to make room
EvictLoop_None(c, t) == c

\* Cache.__setitem__: while currsize + size > maxsize: popitem()
RECURSIVE EvictLoop(_, _)
EvictLoop(c, t) ==
    IF Len(c) + 1 > MAX_CACHE_SIZE /\ Len(c) > 0
    THEN EvictLoop(TTLCache_popitem(c, t), t)
    ELSE c

\* mutant: the new link is put first in the links
TTLCache_setitem_Front(c, k, v, t) ==
    LET c1 == TTLCache_expire(c, t)
        c2 == IF HasKey(c1, k) THEN c1 ELSE EvictLoop(c1, t)
        c3 == SelectSeq(c2, LAMBDA e : e.key # k)
    IN  <<[key |-> k, expires |-> ExpiresAt(t), obj |-> v]>> \o c3

\* mutant: room is made before the expired links are dropped
TTLCache_setitem_NoPurge(c, k, v, t) ==
    LET c2 == IF HasKey(c, k) THEN c ELSE EvictLoop(c, t)
        c3 == SelectSeq(TTLCache_expire(c2, t), LAMBDA e : e.key # k)
    IN  Append(c3, [key |-> k, expires |-> ExpiresAt(t), obj |-> v])

\* cache[k] = v at time t
TTLCache_setitem(c, k, v, t) ==
    LET c1 == TTLCache_expire(c, t)
        c2 == IF HasKey(c1, k) THEN c1 ELSE EvictLoop(c1, t)
        c3 == SelectSeq(c2, LAMBDA e : e.key # k)
    IN  Append(c3, [key |-> k, expires |-> ExpiresAt(t), obj |-> v])

\* mutant: a lookup renews the link's time-to-live (a sliding expiry)
TTLCache_getitem_Sliding(c, k, t) ==
    [cache |-> IF TTLCache_contains(c, k, t)
               THEN Append(SelectSeq(c, LAMBDA e : e.key # k),
                           [Entry(c, k) EXCEPT !.expires = ExpiresAt(t)])
               ELSE MoveToEnd(c, k),
     raised |-> ~TTLCache_contains(c, k, t),
     obj |-> IF TTLCache_contains(c, k, t) THEN Entry(c, k).obj ELSE 0]

\* cache[k] at time t: the links are reordered first, then KeyError if the
\* link is missing or expired.
TTLCache_getitem(c, k, t) ==
    [cache |-> MoveToEnd(c, k),
     raised |-> ~TTLCache_contains(c, k, t),
     obj |-> IF TTLCache_contains(c, k, t) THEN Entry(c, k).obj ELSE 0]

\* mutant: the link stays in the cache
TTLCache_delitem_Keep(c, k, t) ==
    [cache |-> c, raised |-> ~TTLCache_contains(c, k, t)]

\* del cache[k] at time t: the link is removed, then KeyError if it had expired
TTLCache_delitem(c, k, t) ==
    [cache |-> SelectSeq(c, LAMBDA e : e.key # k),
     raised |-> ~TTLCache_contains(c, k, t)]

----------------------------------------------------------------------------
(* MemoryService *)

\* mutant: a new memory is made and stored on every call, found or not
get_memory_AlwaysInsert(c, h, k, t1, t2) ==
    [cache |-> TTLCache_setitem(c, k, Len(h) + 1, t2),
     heap |-> Append(h, <<>>),
     obj |-> Len(h) + 1,
     raised |-> FALSE]

\* get_memory(session_id), the timer reading t1 at line 31 and t2 at line 33 or 40
get_memory(c, h, k, t1, t2) ==
    IF TTLCache_contains(c, k, t1)
    THEN LET g == TTLCache_getitem(c, k, t2)
         IN  [cache |-> g.cache, heap |-> h, obj |-> g.obj, raised |-> g.raised]
    ELSE [cache |-> TTLCache_setitem(c, k, Len(h) + 1, t2),
          heap |-> Append(h, <<>>),
          obj |-> Len(h) + 1,
          raised |-> FALSE]

\* clear_session(session_id), the timer reading t1 at line 54 and t2 at line 55
clear_session(c, k, t1, t2) ==
    IF TTLCache_contains(c, k, t1)
    THEN LET d == TTLCache_delitem(c, k, t2)
         IN  [cache |-> d.cache, raised |-> d.raised, ret |-> ~d.raised]
    ELSE [cache |-> c, raised |-> FALSE, ret |-> FALSE]

\* mutant: the links are counted, expired or not
current_size_Links(c, t) == Len(c)

\* get_cache_stats()["current_size"]
current_size(c, t) == TTLCache_len(c, t)

\* get_cache_stats(): the dict returned and the cache as len() leaves it
get_cache_stats(c, t) ==
    [cache |-> TTLCache_expire(c, t),
     ret |-> [current_size |-> current_size(c, t),
              max_size |-> MAX_CACHE_SIZE,
              ttl_seconds |-> MEMORY_TTL_SECONDS]]

\* mutant: the links are counted without purging the expired ones
clear_all_sessions_Links(c, t) == [cache |-> <<>>, ret |-> Len(c)]

\* clear_all_sessions(): len(cache), then popitem() until the cache is empty
clear_all_sessions(c, t) == [cache |-> <<>>, ret |-> TTLCache_len(c, t)]

\* The transcript a lookup of key k would see at time t.
Transcript(c, h, k, t) ==
    IF TTLCache_contains(c, k, t) THEN h[Entry(c, k).obj] ELSE <<>>

\* history: key k is accessed at time t; made says that the access inserted
\* the key.  Only the keys the cache c still holds are kept.
Touch(a, k, t, made, c) ==
    LET old == SelectSeq(a, LAMBDA x : x.key = k)
        born == IF made \/ Len(old) = 0 THEN t ELSE old[1].created
        rest == SelectSeq(a, LAMBDA x : x.key # k)
    IN  SelectSeq(Append(rest, [key |-> k, created |-> born, at |-> t]),
                  LAMBDA x : HasKey(c, x.key))

\* history: the keys that left the cache are forgotten
Forget(a, c) == SelectSeq(a, LAMBDA x : HasKey(c, x.key))

\* history: the keys that left the cache c are dropped from the lookups
Unlooked(l, c) == SelectSeq(l, LAMBDA x : HasKey(c, x))

\* history: get_memory was called for key k and left the cache as c
Looked(l, k, c) == Unlooked(Append(SelectSeq(l, LAMBDA x : x # k), k), c)

----------------------------------------------------------------------------
(* LLMService (app/llm.py): the provider object the sends are answered by.  *)
(* A provider object is [name, id]: the class it is an instance of and the  *)
(* number of provider objects made before it.                               *)

\* provider names a switch request may carry: the supported ones and another
ProviderNames == {"chatgroq", "ollama", "openai"}

\* get_available_providers(): the names _create_provider has a class for
get_available_providers == {"chatgroq", "ollama"}

\* LLM_PROVIDER of the configuration, when the environment does not set it
LLM_PROVIDER == "chatgroq"

\* _create_provider(provider_name), as the n-th provider object of the run.
\* The call raises for a name without a class, and when the constructor of
\* the class raises (constructed is FALSE: ChatGroqProvider without
\* GROQ_API_KEY, a class or setting the configuration does not define).
create_provider(provider_name, constructed, n) ==
    IF provider_name \in get_available_providers /\ constructed
    THEN [raised |-> FALSE, provider |-> [name |-> provider_name, id |-> n]]
    ELSE [raised |-> TRUE, provider |-> [name |-> "", id |-> n]]

\* LLMService(): the global llm_service, made at import
LLMService(provider) ==
    [provider_name |-> provider,
     provider |-> create_provider(provider, TRUE, 0).provider]

\* generate_response(messages): the provider object whose generate_response
\* is awaited, read from self.provider when the call is made
generate_response(svc) == svc.provider

\* get_provider_info()["provider"]
get_provider_info(svc) == svc.provider.name

\* mutant: the name is recorded before the provider object is made
switch_provider_NameFirst(svc, new_provider, constructed) ==
    LET p == create_provider(new_provider, constructed, svc.provider.id + 1)
    IN  IF p.raised
        THEN [service |-> [svc EXCEPT !.provider_name = new_provider],
              ret |-> [success |-> FALSE, current_provider |-> new_provider]]
        ELSE [service |-> [provider_name |-> new_provider, provider |-> p.provider],
              ret |-> [success |-> TRUE,
                       old_provider |-> svc.provider_name,
                       new_provider |-> new_provider,
                       provider_info |-> p.provider.name]]

\* switch_provider(new_provider): the service afterwards and the dict
\* returned.  An exception of _create_provider is raised before self.provider
\* is assigned and is caught at line 207.
switch_provider(svc, new_provider, constructed) ==
    LET p == create_provider(new_provider, constructed, svc.provider.id + 1)
    IN  IF p.raised
        THEN [service |-> svc,
              ret |-> [success |-> FALSE, current_provider |-> svc.provider_name]]
        ELSE [service |-> [provider_name |-> new_provider, provider |-> p.provider],
              ret |-> [success |-> TRUE,
                       old_provider |-> svc.provider_name,
                       new_provider |-> new_provider,
                       provider_info |-> p.provider.name]]

----------------------------------------------------------------------------
(* The answers of the routes: the HTTP status and what the body says.  They  *)
(* are outputs, not state: the operators below compute the answer of a      *)
(* handler from the state it runs in.                                       *)

\* ChatResponse(response=response_content, ...), lines 156-162
ChatResponse(reply) == [op |-> "chat", status |-> 200, body |-> reply]

\* SessionClearResponse: "cleared successfully" or "not found"
SessionClearResponse(cleared) == [op |-> "clear_session", status |-> 200, body |-> cleared]

\* HTTPException(500) of the clear_session route, lines 272-277
SessionClearError == [op |-> "clear_session", status |-> 500, body |-> 0]

\* MemoryStatsResponse(memory_stats=stats)
MemoryStatsResponse(stats) == [op |-> "stats", status |-> 200, body |-> stats]

\* HTTPException(403) of get_memory_stats, lines 362-366
MemoryStatsForbidden == [op |-> "stats", status |-> 403, body |-> 0]

\* The answer of DELETE /chat/session/{session_id} for key k, lines 261-277:
\* the message says whether clear_session returned True; an exception of
\* clear_session is answered with a 500.
clear_session_response(c, k, t1, t2) ==
    LET r == clear_session(c, k, t1, t2)
    IN  IF r.raised THEN SessionClearError ELSE SessionClearResponse(r.ret)

\* The answer of GET /chat/stats, lines 361-369
get_memory_stats_response(is_superuser, c, t) ==
    IF is_superuser
    THEN MemoryStatsResponse(get_cache_stats(c, t).ret)
    ELSE MemoryStatsForbidden

----------------------------------------------------------------------------

Init ==
    /\ now = 0
    /\ cache = <<>>
    /\ heap = <<>>
    /\ pc = [c \in Calls |-> "idle"]
    /\ ukey = [c \in Calls |-> <<>>]
    /\ memory = [c \in Calls |-> 0]
    /\ sent = [c \in Calls |-> <<>>]
    /\ returned = <<>>
    /\ accessed = <<>>
    /\ request = [c \in Calls |-> [user |-> <<>>, session_id |-> <<>>]]
    /\ lookups = <<>>
    /\ invoked = [c \in Calls |-> <<>>]
    /\ llm_service = LLMService(LLM_PROVIDER)
    /\ switch_result = <<>>

\* The clock advances between two requests.
Tick ==
    /\ now < MaxTime
    /\ now' = now + 1
    /\ UNCHANGED <<cache, heap, pc, ukey, memory, sent, returned, accessed, request>>
    /\ UNCHANGED <<lookups, invoked, llm_vars>>

\* mutant: the provider is passed the new user message alone
current_messages_NoHistory(chat_history, c) == <<HumanMessage(c)>>

\* chat(), line 139: chat_history + [HumanMessage(content=request.message)]
current_messages(chat_history, c) == chat_history \o <<HumanMessage(c)>>

\* mutant: the message is validated by the handler, after its lookup
ChatRejected_AfterLookup ==
    /\ \E u \in Users, s \in RawIds :
           LET g == get_memory(cache, heap, user_session_id(u, s), now, now)
           IN  /\ cache' = g.cache
               /\ heap' = g.heap
               /\ accessed' = Forget(accessed, g.cache)
               /\ lookups' = Looked(lookups, user_session_id(u, s), g.cache)
    /\ UNCHANGED <<now, pc, ukey, memory, sent, returned, request, invoked, llm_vars>>

\* POST /chat/ with a body that ChatRequest rejects: FastAPI answers 422 and
\* chat() is not called.
ChatRejected ==
    /\ UNCHANGED <<now, cache, heap, pc, ukey, memory, sent, returned, accessed, request>>
    /\ UNCHANGED <<lookups, invoked, llm_vars>>

\* chat(), lines 126-142: from the request to the await of the provider call.
\* A KeyError of get_memory is caught at line 170 and answered with a 500.
ChatStart(c, u, s, d) ==
    /\ pc[c] = "idle"
    /\ IF c = 1 THEN TRUE ELSE pc[c - 1] # "idle"
    /\ now + d <= MaxTime
    /\ request' = [request EXCEPT ![c] = [user |-> u, session_id |-> s]]
    /\ LET k == user_session_id(u, s)
           g == get_memory(cache, heap, k, now, now + d)
       IN  /\ now' = now + d
           /\ cache' = g.cache
           /\ heap' = g.heap
           /\ ukey' = [ukey EXCEPT ![c] = k]
           /\ accessed' = IF g.raised
                          THEN Forget(accessed, g.cache)
                          ELSE Touch(accessed, k, now + d, g.obj = Len(heap) + 1, g.cache)
           /\ lookups' = Looked(lookups, k, g.cache)
           /\ IF g.raised
              THEN /\ pc' = [pc EXCEPT ![c] = "error"]
                   /\ UNCHANGED <<memory, sent, invoked>>
              ELSE /\ pc' = [pc EXCEPT ![c] = "waiting"]
                   /\ memory' = [memory EXCEPT ![c] = g.obj]
                   /\ sent' = [sent EXCEPT ![c] = current_messages(g.heap[g.obj], c)]
                   /\ invoked' = [invoked EXCEPT
                                      ![c] = Append(@, generate_response(llm_service))]
    /\ UNCHANGED <<returned, llm_vars>>

\* POST /chat/ with a message of n characters: the body is validated against
\* ChatRequest before chat() is called for the user and session of the request.
PostChat(n) ==
    IF ValidMessage(n)
    THEN \E c \in Calls, u \in Users, s \in RawIds, d \in {0, 1} : ChatStart(c, u, s, d)
    ELSE ChatRejected

\* mutant: the transcript is rebuilt from the list read before the provider
\* call (current_messages), so what was appended meanwhile is overwritten
SaveConversation_LostUpdate(h, m, c) ==
    [h EXCEPT ![m] = Append(sent[c], AIMessage(c))]

\* mutant: the pair is put where the transcript ended when the request started
SaveConversation_StartOrder(h, m, c) ==
    LET n == Len(sent[c]) - 1
    IN  [h EXCEPT ![m] = SubSeq(@, 1, n) \o <<HumanMessage(c), AIMessage(c)>>
                             \o SubSeq(@, n + 1, Len(@))]

\* mutant: the reply is saved before the user message
SaveConversation_ReplyFirst(h, m, c) ==
    [h EXCEPT ![m] = Append(Append(@, AIMessage(c)), HumanMessage(c))]

\* mutant: the reply is not saved
SaveConversation_UserOnly(h, m, c) ==
    [h EXCEPT ![m] = Append(@, HumanMessage(c))]

\* mutant: the transcript is replaced by the pair of the request
SaveConversation_Replace(h, m, c) ==
    [h EXCEPT ![m] = <<HumanMessage(c), AIMessage(c)>>]

\* chat(), lines 148-149: add_user_message, add_ai_message on the local memory
SaveConversation(h, m, c) ==
    [h EXCEPT ![m] = Append(Append(@, HumanMessage(c)), AIMessage(c))]

\* chat(), lines 142-162: the provider call returns a reply.
ChatReturn(c) ==
    /\ pc[c] = "waiting"
    /\ heap' = SaveConversation(heap, memory[c], c)
    /\ pc' = [pc EXCEPT ![c] = "done"]
    /\ returned' = Append(returned, c)
    /\ accessed' = Touch(accessed, ukey[c], now, FALSE, cache)
    /\ UNCHANGED <<now, cache, ukey, memory, sent, request, lookups, invoked, llm_vars>>

\* mutant: the user message was saved before the provider call
ChatFail_UserSaved(c) ==
    /\ pc[c] = "waiting"
    /\ pc' = [pc EXCEPT ![c] = "failed"]
    /\ heap' = [heap EXCEPT ![memory[c]] = Append(@, HumanMessage(c))]
    /\ UNCHANGED <<now, cache, ukey, memory, sent, returned, accessed, request>>
    /\ UNCHANGED <<lookups, invoked, llm_vars>>

\* mutant: the provider is called again when its call raises
ChatFail_Retry(c) ==
    /\ pc[c] = "waiting"
    /\ Len(invoked[c]) <= MaxCalls
    /\ invoked' = [invoked EXCEPT ![c] = Append(@, generate_response(llm_service))]
    /\ UNCHANGED <<now, cache, heap, pc, ukey, memory, sent, returned, accessed, request>>
    /\ UNCHANGED <<lookups, llm_vars>>

\* chat(), lines 142 and 170-175: the provider call raises (or the request is
\* cancelled at the await): nothing is saved.
ChatFail(c) ==
    /\ pc[c] = "waiting"
    /\ pc' = [pc EXCEPT ![c] = "failed"]
    /\ UNCHANGED <<now, cache, heap, ukey, memory, sent, returned, accessed, request>>
    /\ UNCHANGED <<lookups, invoked, llm_vars>>

\* DELETE /chat/session/{session_id}, lines 261-277.  A KeyError of
\* clear_session is caught at line 272 and answered with a 500.
ClearSession(u, s, d) ==
    /\ now + d <= MaxTime
    /\ LET r == clear_session(cache, user_session_id(u, s), now, now + d)
       IN  /\ now' = now + d
           /\ cache' = r.cache
           /\ accessed' = Forget(accessed, r.cache)
           /\ lookups' = Unlooked(lookups, r.cache)
    /\ UNCHANGED <<heap, pc, ukey, memory, sent, returned, request, invoked, llm_vars>>

\* MemoryService.clear_all_sessions()
ClearAll ==
    /\ LET r == clear_all_sessions(cache, now)
       IN  /\ cache' = r.cache
           /\ accessed' = Forget(accessed, r.cache)
           /\ lookups' = Unlooked(lookups, r.cache)
    /\ UNCHANGED <<now, heap, pc, ukey, memory, sent, returned, request, invoked, llm_vars>>

\* GET /chat/stats, lines 361-369, asked by a user who is a superuser or not
GetMemoryStats(is_superuser) ==
    /\ IF is_superuser
       THEN LET r == get_cache_stats(cache, now)
            IN  /\ cache' = r.cache
                /\ accessed' = Forget(accessed, r.cache)
                /\ lookups' = Unlooked(lookups, r.cache)
       ELSE UNCHANGED <<cache, accessed, lookups>>
    /\ UNCHANGED <<now, heap, pc, ukey, memory, sent, returned, request, invoked, llm_vars>>

\* POST /llm/switch, lines 274-302 of routes/llm.py: a name that is not an
\* available provider is answered with a 400 before the service is called.
SwitchProvider(new_provider, constructed) ==
    /\ IF new_provider \in get_available_providers
       THEN LET r == switch_provider(llm_service, new_provider, constructed)
            IN  /\ r.service.provider.id <= MaxSwitches
                /\ llm_service' = r.service
                /\ switch_result' = <<r.ret>>
       ELSE UNCHANGED llm_vars
    /\ UNCHANGED <<now, cache, heap, pc, ukey, memory, sent, returned, accessed, request>>
    /\ UNCHANGED <<lookups, invoked>>

Next ==
    \/ Tick
    \/ \E n \in MessageLengths : PostChat(n)
    \/ \E c \in Calls : ChatReturn(c)
    \/ \E c \in Calls : ChatFail(c)
    \/ \E u \in Users, s \in RawIds, d \in {0, 1} : ClearSession(u, s, d)
    \/ ClearAll
    \/ \E is_superuser \in BOOLEAN : GetMemoryStats(is_superuser)

Spec == Init /\ [][Next]_vars

\* The sends and the provider switches: the memory routes do not read or
\* write llm_service, and the switch route reads neither the cache nor its
\* timer.  The clock advances while a send looks its session up (d).
NextLLM ==
    \/ \E n \in MessageLengths : PostChat(n)
    \/ \E c \in Calls : ChatReturn(c)
    \/ \E c \in Calls : ChatFail(c)
    \/ \E new_provider \in ProviderNames, constructed \in BOOLEAN :
           SwitchProvider(new_provider, constructed)

SpecLLM == Init /\ [][NextLLM]_vars

\* The service with a full cache: two sends of one user on two sessions were
\* made at time 0 and failed at the provider, which leaves their empty
\* conversations in the cache; the chat requests of the run come after them.
InitLRU ==
    /\ now = 0
    /\ cache = <<[key |-> user_session_id(<<"0", "1">>, <<"a">>),
                  expires |-> ExpiresAt(0), obj |-> 1],
                 [key |-> user_session_id(<<"0", "1">>, <<"1", "_", "a">>),
                  expires |-> ExpiresAt(0), obj |-> 2]>>
    /\ heap = <<<<>>, <<>>>>
    /\ pc = [c \in Calls |-> "idle"]
    /\ ukey = [c \in Calls |-> <<>>]
    /\ memory = [c \in Calls |-> 0]
    /\ sent = [c \in Calls |-> <<>>]
    /\ returned = <<>>
    /\ accessed = <<[key |-> cache[1].key, created |-> 0, at |-> 0],
                    [key |-> cache[2].key, created |-> 0, at |-> 0]>>
    /\ request = [c \in Calls |-> [user |-> <<>>, session_id |-> <<>>]]
    /\ lookups = <<cache[1].key, cache[2].key>>
    /\ invoked = [c \in Calls |-> <<>>]
    /\ llm_service = LLMService(LLM_PROVIDER)
    /\ switch_result = <<>>

SpecLRU == InitLRU /\ [][Next]_vars

----------------------------------------------------------------------------
(* Helpers of the properties *)

\* the keys a lookup finds at time t
LiveKeys(c, t) == {k \in Keys : TTLCache_contains(c, k, t)}

\* chat request c inserted the object it holds (requests start in the order
\* of their numbers, and an object is first held by the request that made it)
Created(c) ==
    /\ memory[c] # 0
    /\ \A c2 \in Calls : c2 < c => memory[c2] # memory[c]

\* object o is the value of a link of cache c
Linked(c, o) == \E j \in 1..Len(c) : c[j].obj = o

\* the place of x in the sequence q (0: not in it)
IndexOf(q, x) ==
    IF \E i \in 1..Len(q) : q[i] = x
    THEN CHOOSE i \in 1..Len(q) : q[i] = x
    ELSE 0

----------------------------------------------------------------------------
\* C1: TTL expiry.  For every session key whose last access (a get_memory
\* lookup or a send's append) is more than ttl_seconds ago, get_memory returns
\* a new object with an empty transcript, whatever the clock does during the
\* call, and current_size does not count the key.
C1_TTLExpiry ==
    \A i \in 1..Len(accessed) :
        LET k == accessed[i].key
        IN  now - accessed[i].at > MEMORY_TTL_SECONDS =>
                /\ ~TTLCache_contains(cache, k, now)
                /\ current_size(cache, now) = Cardinality(LiveKeys(cache, now) \ {k})
                /\ \A d \in {0, 1} :
                       LET g == get_memory(cache, heap, k, now, now + d)
                       IN  /\ ~g.raised
                           /\ g.obj \notin 1..Len(heap)
                           /\ g.heap[g.obj] = <<>>
                           /\ TTLCache_contains(g.cache, k, now + d)
                           /\ Entry(g.cache, k).obj = g.obj

\* C1 witness: an entry with a transcript of two turns or more, last accessed
\* more than ttl_seconds ago, still linked in the cache.
C1_Witness ==
    \E i \in 1..Len(accessed) :
        /\ now - accessed[i].at > MEMORY_TTL_SECONDS
        /\ HasKey(cache, accessed[i].key)
        /\ Len(heap[Entry(cache, accessed[i].key).obj]) >= 2

----------------------------------------------------------------------------
----------------------------------------------------------------------------
\* C3: capacity bound.  In every reachable state current_size, as
\* get_cache_stats reports it, is at most MAX_CACHE_SIZE, and so is the
\* number of links the cache holds.
C3_CapacityBound ==
    /\ current_size(cache, now) <= MAX_CACHE_SIZE
    /\ Len(cache) <= MAX_CACHE_SIZE

\* C3 witness: the cache is full of live entries after more distinct keys
\* than it can hold were inserted within one instant.
C3_Witness ==
    /\ current_size(cache, now) = MAX_CACHE_SIZE
    /\ now = 0
    /\ Len(heap) > MAX_CACHE_SIZE
    /\ \A c1, c2 \in Calls : c1 # c2 => ukey[c1] # ukey[c2]
    /\ \A c \in Calls : pc[c] = "done"

----------------------------------------------------------------------------
\* C4: LRU victim.  When a lookup inserts a new key into a cache that holds
\* MAX_CACHE_SIZE live entries (the clock standing still during the call),
\* exactly one entry is removed, the one whose last access (lookup or append)
\* is the oldest, and every other entry and every transcript is unchanged.
C4_LRUVictim ==
    [][\A c \in Calls :
          (/\ pc[c] = "idle"
           /\ pc'[c] = "waiting"
           /\ now' = now
           /\ ~HasKey(cache, ukey'[c])
           /\ current_size(cache, now) = MAX_CACHE_SIZE)
              => /\ ~HasKey(cache', accessed[1].key)
                 /\ Len(cache') = MAX_CACHE_SIZE
                 /\ \A j \in 1..Len(cache) :
                        cache[j].key # accessed[1].key
                            => \E j2 \in 1..Len(cache') : cache'[j2] = cache[j]
                 /\ \A o \in 1..Len(heap) : heap'[o] = heap[o]]_vars

----------------------------------------------------------------------------
----------------------------------------------------------------------------
\* C6: pair ordering.  In every transcript the pairs of the sends that were
\* saved to it stand in the order in which their provider calls returned.
C6_ReturnOrder ==
    \A c1, c2 \in Calls :
        (/\ pc[c1] = "done" /\ pc[c2] = "done"
         /\ memory[c1] = memory[c2]
         /\ IndexOf(returned, c1) < IndexOf(returned, c2))
            => /\ IndexOf(heap[memory[c1]], HumanMessage(c1)) > 0
               /\ IndexOf(heap[memory[c1]], HumanMessage(c1))
                      < IndexOf(heap[memory[c1]], HumanMessage(c2))

\* C6 witness: of two sends on one entry the later one returned first, and
\* both are saved.
C6_Witness ==
    \E c1, c2 \in Calls :
        /\ c1 < c2
        /\ pc[c1] = "done" /\ pc[c2] = "done"
        /\ memory[c1] = memory[c2]
        /\ IndexOf(returned, c2) < IndexOf(returned, c1)
        /\ TTLCache_contains(cache, ukey[c1], now)
        /\ Entry(cache, ukey[c1]).obj = memory[c1]

----------------------------------------------------------------------------
\* C7: failure leaves no trace.  The step in which a provider call fails
\* changes no transcript; the lookup a send starts with leaves the transcript
\* of its session as it was; no turn of a failed send is ever in a
\* transcript; and a send (so also a retry) passes the provider the stored
\* transcript of its session followed by its user turn.
C7_FailureLeavesNoTrace ==
    [][\A c \in Calls :
          /\ (pc[c] = "waiting" /\ pc'[c] = "failed")
                 => /\ heap' = heap
                    /\ \A k \in Keys : Transcript(cache', heap', k, now')
                                           = Transcript(cache, heap, k, now)
          /\ (pc[c] = "idle" /\ pc'[c] # "idle")
                 => Transcript(cache', heap', ukey'[c], now')
                        = Transcript(cache, heap, ukey'[c], now')
          /\ pc'[c] \in {"failed", "error"}
                 => \A o \in 1..Len(heap') : \A i \in 1..Len(heap'[o]) :
                        heap'[o][i].call # c
          /\ (pc[c] = "idle" /\ pc'[c] = "waiting")
                 => sent'[c] = Transcript(cache, heap, ukey'[c], now')
                                   \o <<HumanMessage(c)>>]_vars

\* C7 witness: after a completed send, a send on the same session failed at
\* the provider and a retry has passed the provider the transcript of before
\* the failure followed by its user turn.
C7_Witness ==
    \E c1, c2, c3 \in Calls :
        /\ c1 < c2 /\ c2 < c3
        /\ pc[c1] = "done" /\ pc[c2] = "failed" /\ pc[c3] = "waiting"
        /\ ukey[c1] = ukey[c2] /\ ukey[c2] = ukey[c3]
        /\ sent[c2] = <<HumanMessage(c1), AIMessage(c1), HumanMessage(c2)>>
        /\ sent[c3] = <<HumanMessage(c1), AIMessage(c1), HumanMessage(c3)>>

----------------------------------------------------------------------------
\* C8 as claimed: a failed send leaves the set of live entries as it was, so
\* no failed send has left a live entry of its own making in the cache.
C8_NoSideEffect ==
    \A c \in Calls :
        pc[c] = "failed"
            => ~(/\ Created(c)
                 /\ TTLCache_contains(cache, ukey[c], now)
                 /\ Entry(cache, ukey[c]).obj = memory[c])

\* C8 as amended: a failed send changes no turn of any transcript, and the
\* failing step changes nothing in the cache; what it leaves behind is the
\* effect of the lookup it started with, as for any send: the objects that
\* exist keep their turns and the session's transcript is as before; no key
\* but the session's becomes live; a live key is removed only when the
\* session had no live entry and the cache was full of live entries, and then
\* it is the one least recently looked up; every other live entry is kept as
\* it was.
C8_FailedSendEffects ==
    [][\A c \in Calls :
          /\ (pc[c] = "waiting" /\ pc'[c] = "failed")
                 => cache' = cache /\ heap' = heap
          /\ (pc[c] = "idle" /\ pc'[c] # "idle")
                 => LET k == ukey'[c]
                        before == TTLCache_expire(cache, now')
                        gone == LiveKeys(cache, now') \ LiveKeys(cache', now')
                    IN  /\ \A o \in 1..Len(heap) : heap'[o] = heap[o]
                        /\ Transcript(cache', heap', k, now')
                               = Transcript(cache, heap, k, now')
                        /\ LiveKeys(cache', now') \subseteq LiveKeys(cache, now') \cup {k}
                        /\ Cardinality(gone) <= 1
                        /\ \A k2 \in gone :
                               /\ ~TTLCache_contains(cache, k, now)
                               /\ Len(before) = MAX_CACHE_SIZE
                               /\ k2 = before[1].key
                        /\ \A k2 \in LiveKeys(cache', now') \ {k} :
                               Entry(cache', k2) = Entry(cache, k2)]_vars

\* C8 witness: a send that failed at the provider inserted its session into
\* a full cache, and the entry of a completed send, with its two turns, is no
\* longer in the cache.
C8_Witness ==
    \E c1, c2, c3 \in Calls :
        /\ c1 < c2 /\ c2 < c3
        /\ now = 0
        /\ pc[c1] = "done" /\ pc[c2] = "done" /\ pc[c3] = "failed"
        /\ Created(c3)
        /\ Len(heap[memory[c1]]) = 2
        /\ ~HasKey(cache, ukey[c1])
        /\ LiveKeys(cache, now) = {ukey[c2], ukey[c3]}
        /\ ukey[c2] # ukey[c3]

----------------------------------------------------------------------------
\* C9: append to a missing entry.  When a send is saved while the cache has no
\* live entry for its session, a fresh entry holding exactly the send's user
\* turn and assistant turn exists afterwards; and a send whose object the
\* cache no longer holds does not append to that object.
C9_AppendToMissingEntry ==
    [][\A c \in Calls :
          (pc[c] = "waiting" /\ pc'[c] = "done")
              => /\ ~TTLCache_contains(cache, ukey[c], now)
                     => /\ TTLCache_contains(cache', ukey[c], now')
                        /\ Transcript(cache', heap', ukey[c], now')
                               = <<HumanMessage(c), AIMessage(c)>>
                 /\ (\A j \in 1..Len(cache) : cache[j].obj # memory[c])
                     => heap'[memory[c]] = heap[memory[c]]]_vars

----------------------------------------------------------------------------
\* C10: all-or-nothing pair.  In every state every transcript, of the entries
\* in the cache and of the objects requests still hold, has even length and
\* is made of user turns each immediately followed by the assistant turn of
\* the same send.
C10_PairsOnly ==
    \A o \in 1..Len(heap) :
        /\ Len(heap[o]) % 2 = 0
        /\ \A i \in 1..Len(heap[o]) :
               IF i % 2 = 1
               THEN /\ heap[o][i].role = "human"
                    /\ heap[o][i + 1] = AIMessage(heap[o][i].call)
               ELSE heap[o][i].role = "ai"

\* C10 witness: a session with a saved pair is observed while one send on it
\* has failed at the provider and another is waiting for the provider.
C10_Witness ==
    \E c1, c2, c3 \in Calls :
        /\ pc[c1] = "done" /\ pc[c2] = "failed" /\ pc[c3] = "waiting"
        /\ memory[c1] = memory[c2] /\ memory[c2] = memory[c3]
        /\ TTLCache_contains(cache, ukey[c1], now)
        /\ Entry(cache, ukey[c1]).obj = memory[c1]
        /\ Len(heap[memory[c1]]) = 2

----------------------------------------------------------------------------
\* C11: clear idempotence.  A clear of session s answers "cleared" exactly
\* when s had a live entry when the call began and "not found" otherwise;
\* after the call s has no live entry, and a second clear of s that follows
\* it directly answers "not found" and leaves s without an entry.
C11_ClearIdempotence ==
    [][\A u \in Users, s \in RawIds, d \in {0, 1} :
          ClearSession(u, s, d) =>
              LET k == user_session_id(u, s)
              IN  /\ clear_session_response(cache, k, now, now + d)
                         = SessionClearResponse(TTLCache_contains(cache, k, now))
                  /\ ~TTLCache_contains(cache', k, now')
                  /\ \A d2 \in {0, 1} :
                         /\ clear_session_response(cache', k, now', now' + d2)
                                = SessionClearResponse(FALSE)
                         /\ ~TTLCache_contains(clear_session(cache', k, now', now' + d2).cache,
                                               k, now' + d2)]_vars

----------------------------------------------------------------------------
\* C12: clear_all_sessions returns the number of keys that were live when it
\* was called and leaves no entry; right after it get_cache_stats reports
\* current_size 0 and get_memory of any key returns an object with an empty
\* transcript.
C12_ClearAll ==
    [][ClearAll =>
          /\ clear_all_sessions(cache, now).ret = Cardinality(LiveKeys(cache, now))
          /\ LiveKeys(cache', now') = {}
          /\ Len(cache') = 0
          /\ get_memory_stats_response(TRUE, cache', now').body.current_size = 0
          /\ \A k \in Keys, d \in {0, 1} :
                 LET g == get_memory(cache', heap', k, now', now' + d)
                 IN  /\ ~g.raised
                     /\ g.heap[g.obj] = <<>>]_vars

\* C12 witness: within one instant two sessions were given a pair each, and
\* the cache is empty while a request still holds one of their objects.
C12_Witness ==
    /\ cache = <<>>
    /\ now = 0
    /\ \E c1, c2, c3 \in Calls :
           /\ pc[c1] = "done" /\ pc[c2] = "done" /\ pc[c3] = "waiting"
           /\ ukey[c1] # ukey[c2]
           /\ memory[c3] = memory[c2]
           /\ Len(sent[c3]) = 3

----------------------------------------------------------------------------
\* C13: a clear never ends in an error.  In every state and for every
\* advance of the clock during the call the route answers 200 with a boolean
\* verdict.
C13_ClearNeverRaises ==
    [][\A u \in Users, s \in RawIds, d \in {0, 1} :
          ClearSession(u, s, d) =>
              LET a == clear_session_response(cache, user_session_id(u, s), now, now + d)
              IN  /\ a.status = 200
                  /\ a.body \in BOOLEAN]_vars

----------------------------------------------------------------------------
\* C14: get_memory never fails.  Every lookup a send starts with, in every
\* state of the cache and for every advance of the clock during the call,
\* hands the request an object of the cache.
C14_GetMemoryNeverRaises ==
    [][\A c \in Calls :
          (pc[c] = "idle" /\ pc'[c] # "idle")
              => /\ pc'[c] = "waiting"
                 /\ memory'[c] \in 1..Len(heap')
                 /\ HasKey(cache', ukey'[c])
                 /\ Entry(cache', ukey'[c]).obj = memory'[c]]_vars

----------------------------------------------------------------------------
\* C15: invalid input is rejected before any effect.  A POST /chat/ whose
\* message is empty or longer than 4000 characters starts no provider call
\* and leaves the cache, every transcript and every request as they were.
C15_InvalidRejected ==
    [][\A n \in MessageLengths :
          ((n = 0 \/ n > 4000) /\ PostChat(n))
              => /\ cache' = cache
                 /\ heap' = heap
                 /\ sent' = sent
                 /\ pc' = pc
                 /\ memory' = memory]_vars

\* C15 witness: a state in which a rejected send finds work a lookup would
\* do: the cache is full, one of its links has expired, another holds a
\* transcript, and a request is still free to start.
C15_Witness ==
    /\ Len(cache) = MAX_CACHE_SIZE
    /\ \E i, j \in 1..Len(cache) :
           /\ ~Fresh(cache[i], now)
           /\ Fresh(cache[j], now)
           /\ Len(heap[cache[j].obj]) >= 2
    /\ \E c \in Calls : pc[c] = "idle"

----------------------------------------------------------------------------
----------------------------------------------------------------------------
\* C17: provider input.  The list a send passes to the provider is the
\* transcript of its session as its lookup found it, followed by its user
\* turn; so it holds the pair of every earlier send that was saved to the
\* entry, in the order in which they were saved, and nothing else.
C17_ProviderInput ==
    [][\A c \in Calls :
          (pc[c] = "idle" /\ pc'[c] = "waiting")
              => LET earlier == {c1 \in Calls : pc[c1] = "done" /\ memory[c1] = memory'[c]}
                     m == sent'[c]
                 IN  /\ m = Transcript(cache, heap, ukey'[c], now') \o <<HumanMessage(c)>>
                     /\ Len(m) = 2 * Cardinality(earlier) + 1
                     /\ \A c1 \in earlier :
                            /\ IndexOf(m, HumanMessage(c1)) > 0
                            /\ m[IndexOf(m, HumanMessage(c1)) + 1] = AIMessage(c1)
                     /\ \A c1, c2 \in earlier :
                            IndexOf(returned, c1) < IndexOf(returned, c2)
                                => IndexOf(m, HumanMessage(c1)) < IndexOf(m, HumanMessage(c2))]_vars

\* C17 witness: the third of three sends in a row on one session passes the
\* provider the two earlier pairs and its own user turn.
C17_Witness ==
    /\ pc[3] = "waiting"
    /\ sent[3] = <<HumanMessage(1), AIMessage(1), HumanMessage(2), AIMessage(2),
                   HumanMessage(3)>>

----------------------------------------------------------------------------
\* C18: in every reachable state get_cache_stats, asked by a superuser,
\* answers with current_size equal to the number of keys that are live at
\* that moment (inserted, and since then neither cleared nor evicted nor
\* expired), max_size equal to MAX_CACHE_SIZE and ttl_seconds equal to
\* MEMORY_TTL_SECONDS, and the cache it leaves holds exactly the live entries.
C18_Stats ==
    LET a == get_memory_stats_response(TRUE, cache, now)
        alive == {i \in 1..Len(accessed) :
                      now < accessed[i].created + MEMORY_TTL_SECONDS}
    IN  /\ a.status = 200
        /\ a.body.current_size = Cardinality(LiveKeys(cache, now))
        /\ a.body.current_size = Cardinality(alive)
        /\ a.body.max_size = MAX_CACHE_SIZE
        /\ a.body.ttl_seconds = MEMORY_TTL_SECONDS
        /\ LiveKeys(get_cache_stats(cache, now).cache, now) = LiveKeys(cache, now)

\* C18 witness: the cache holds an expired link beside a live entry, after a
\* third session was evicted or cleared: current_size is 1.
C18_Witness ==
    /\ Len(cache) = 2
    /\ Len(heap) >= 3
    /\ get_memory_stats_response(TRUE, cache, now).body.current_size = 1

----------------------------------------------------------------------------
\* C19: clearing is permanent.  A clear that answers "cleared" takes the
\* object of the session out of the cache; an object that is out of the cache
\* is never linked again; a send that starts is handed an object of the cache
\* and passes the provider only turns saved to that object; and a turn is
\* saved only to the object its send holds.  So the turns of a cleared
\* transcript, and what sends in flight at the clear append to it later, are
\* never returned by a later lookup nor passed to the provider.
C19_ClearPermanent ==
    [][/\ \A u \in Users, s \in RawIds, d \in {0, 1} :
             LET k == user_session_id(u, s)
             IN  (/\ pc' = pc
                  /\ ClearSession(u, s, d)
                  /\ clear_session_response(cache, k, now, now + d)
                         = SessionClearResponse(TRUE))
                     => /\ ~Linked(cache', Entry(cache, k).obj)
                        /\ ~HasKey(cache', k)
       /\ \A o \in 1..Len(heap) : ~Linked(cache, o) => ~Linked(cache', o)
       /\ \A c \in Calls :
             (pc[c] = "idle" /\ pc'[c] = "waiting")
                 => /\ HasKey(cache', ukey'[c])
                    /\ Entry(cache', ukey'[c]).obj = memory'[c]
                    /\ \A i \in 1..(Len(sent'[c]) - 1) :
                           memory'[sent'[c][i].call] = memory'[c]
       /\ \A o \in 1..Len(heap') : \A i \in 1..Len(heap'[o]) :
             memory'[heap'[o][i].call] = o]_vars

\* C19 witness: a session with a saved pair was cleared while a second send
\* on it was in flight; a third send on the session, started after the
\* clear, passes the provider its own user turn alone.
C19_Witness ==
    /\ now = 0
    /\ Len(heap) = 2
    /\ pc[1] = "done" /\ pc[2] = "waiting" /\ pc[3] = "waiting"
    /\ ukey[1] = ukey[2] /\ ukey[2] = ukey[3]
    /\ memory[1] = 1 /\ memory[2] = 1 /\ memory[3] = 2
    /\ sent[2] = <<HumanMessage(1), AIMessage(1), HumanMessage(2)>>
    /\ sent[3] = <<HumanMessage(3)>>

----------------------------------------------------------------------------
\* C20: per-user isolation.  The list a send passes to the provider holds
\* only turns of sends of the same user on the same session id; every
\* transcript holds the turns of one user and one session id only, and the
\* cache links it under the key of that user and session id; and a clear by
\* user u of session id s leaves the entry of every other user for s, if it
\* is live when the call ends, as it was, with its transcript.
C20_UserIsolation ==
    [][/\ \A c \in Calls :
             pc'[c] = "waiting"
                 => \A i \in 1..Len(sent'[c]) : request'[sent'[c][i].call] = request'[c]
       /\ \A o \in 1..Len(heap') : \A i, j \in 1..Len(heap'[o]) :
             request'[heap'[o][i].call] = request'[heap'[o][j].call]
       /\ \A n \in 1..Len(cache') : \A i \in 1..Len(heap'[cache'[n].obj]) :
             LET r == request'[heap'[cache'[n].obj][i].call]
             IN  cache'[n].key = user_session_id(r.user, r.session_id)
       /\ \A u \in Users, s \in RawIds, d \in {0, 1} :
             (/\ pc' = pc
              /\ ClearSession(u, s, d))
                 => \A v \in Users \ {u} :
                        LET kv == user_session_id(v, s)
                        IN  TTLCache_contains(cache, kv, now')
                                => /\ TTLCache_contains(cache', kv, now')
                                   /\ Entry(cache', kv) = Entry(cache, kv)
                                   /\ heap'[Entry(cache', kv).obj]
                                          = heap[Entry(cache, kv).obj]]_vars

\* C20 witness: two users have each saved a pair under the same session id,
\* the first user has cleared it, the entry of the second is live with its
\* own pair, and a further send of the second user passes the provider that
\* pair and its user turn.
C20_Witness ==
    /\ now = 0
    /\ Len(heap) = 2
    /\ pc[1] = "done" /\ pc[2] = "done" /\ pc[3] = "waiting"
    /\ request[1].user # request[2].user
    /\ request[1].session_id = request[2].session_id
    /\ request[3] = request[2]
    /\ ~HasKey(cache, ukey[1])
    /\ TTLCache_contains(cache, ukey[2], now)
    /\ Transcript(cache, heap, ukey[2], now) = <<HumanMessage(2), AIMessage(2)>>
    /\ sent[3] = <<HumanMessage(2), AIMessage(2), HumanMessage(3)>>

----------------------------------------------------------------------------
(* The ways a key leaves the cache, read off a step *)

\* the step is a clear of key k by the clear_session route
ClearedBy(k) ==
    \E u \in Users, s \in RawIds, d \in {0, 1} :
        /\ user_session_id(u, s) = k
        /\ ClearSession(u, s, d)

\* the step is a send that inserts a key other than k (one that a lookup
\* does not find when the send starts) into a cache that holds
\* MAX_CACHE_SIZE live keys when the key is inserted
EvictedBy(k) ==
    \E c \in Calls :
        /\ pc[c] = "idle" /\ pc'[c] = "waiting"
        /\ ukey'[c] # k
        /\ ~TTLCache_contains(cache, ukey'[c], now)
        /\ Cardinality(LiveKeys(cache, now')) = MAX_CACHE_SIZE

----------------------------------------------------------------------------
\* C22: a failed provider switch changes nothing.  A switch request that is
\* refused or whose provider cannot be made leaves the provider object and
\* the provider name of the service as they were and reports the name that
\* stays current; the sends that start afterwards await that provider
\* object, and get_provider_info describes it.
C22_FailedSwitch ==
    [][/\ \A new_provider \in ProviderNames, constructed \in BOOLEAN :
             (/\ pc' = pc
              /\ ~(new_provider \in get_available_providers /\ constructed)
              /\ SwitchProvider(new_provider, constructed))
                 => llm_service' = llm_service
       /\ (switch_result' # <<>> /\ ~switch_result'[1].success)
             => /\ switch_result'[1].current_provider = llm_service'.provider_name
                /\ get_provider_info(llm_service') = llm_service'.provider_name
                /\ switch_result' # switch_result => llm_service' = llm_service
       /\ \A c \in Calls :
             (pc[c] = "idle" /\ pc'[c] = "waiting")
                 => /\ invoked'[c] = <<llm_service.provider>>
                    /\ llm_service' = llm_service]_vars

\* C22 witness: the service was switched to ollama and a later switch
\* failed; the service still holds the ollama provider object under that
\* name, and a send answered by that object has returned.
C22_Witness ==
    /\ switch_result = <<[success |-> FALSE, current_provider |-> "ollama"]>>
    /\ llm_service = [provider_name |-> "ollama",
                      provider |-> [name |-> "ollama", id |-> 1]]
    /\ pc[1] = "waiting" /\ invoked[1] = <<[name |-> "chatgroq", id |-> 0]>>
    /\ pc[2] = "done" /\ invoked[2] = <<llm_service.provider>>

----------------------------------------------------------------------------
\* C23: a conversation keeps its provider.  A send that finds the
\* conversation of an earlier send (the lookup returns the object that the
\* earlier send inserted) is answered by a provider of the kind that answered
\* the inserting send, whatever switches happened in between; a conversation
\* started after a switch uses the new provider.
C23_ConversationKeepsProvider ==
    \A c0, c \in Calls :
        (/\ Created(c0)
         /\ memory[c] = memory[c0]
         /\ invoked[c] # <<>>)
            => invoked[c][1].name = invoked[c0][1].name

----------------------------------------------------------------------------
\* C24: eviction happens on insertion only.  A send whose lookup finds its
\* key leaves the cache with the links it had (their order may change), and
\* the append of a send that returns leaves the cache as it is, also when the
\* cache holds MAX_CACHE_SIZE keys.
C24_EvictionOnInsertionOnly ==
    [][/\ \A c \in Calls :
             (/\ pc[c] = "idle" /\ pc'[c] # "idle"
              /\ TTLCache_contains(cache, ukey'[c], now))
                 => /\ Len(cache') = Len(cache)
                    /\ {cache'[j] : j \in 1..Len(cache')} = {cache[j] : j \in 1..Len(cache)}
                    /\ heap' = heap
       /\ \A c \in Calls :
             (pc[c] = "waiting" /\ pc'[c] = "done") => cache' = cache]_vars

\* C24 witness: the cache is full, a send on the first key has appended its
\* pair and a later send on that key, started once the second key was in,
\* has found it: both keys are still live and no object was made for it.
C24_Witness ==
    /\ now = 1
    /\ Len(cache) = MAX_CACHE_SIZE
    /\ \A j \in 1..Len(cache) : Fresh(cache[j], now)
    /\ Len(heap) = 2
    /\ pc[1] = "done" /\ pc[2] = "waiting" /\ pc[3] = "waiting"
    /\ ukey[3] = ukey[1] /\ ukey[2] # ukey[1]
    /\ memory[3] = memory[1]
    /\ sent[3] = <<HumanMessage(1), AIMessage(1), HumanMessage(3)>>

----------------------------------------------------------------------------
\* the live keys that the step removes from cache, when the step is a send
\* that inserts its key
Evicted ==
    IF \E c \in Calls : /\ pc[c] = "idle" /\ pc'[c] = "waiting"
                         /\ Len(heap') = Len(heap) + 1
                         /\ memory'[c] = Len(heap')
    THEN {k \in LiveKeys(cache, now') : ~HasKey(cache', k)}
    ELSE {}

----------------------------------------------------------------------------
----------------------------------------------------------------------------
\* C27: transcripts are append-only.  While the cache links a key to the same
\* object, what a lookup of the key sees before a step is a prefix of what it
\* sees after the step; no object ever loses or changes a turn.
C27_AppendOnly ==
    [][/\ \A o \in 1..Len(heap) :
             /\ Len(heap[o]) <= Len(heap'[o])
             /\ SubSeq(heap'[o], 1, Len(heap[o])) = heap[o]
       /\ \A k \in Keys :
             (/\ TTLCache_contains(cache, k, now)
              /\ TTLCache_contains(cache', k, now')
              /\ Entry(cache', k).obj = Entry(cache, k).obj)
                 => LET before == Transcript(cache, heap, k, now)
                        after == Transcript(cache', heap', k, now')
                    IN  /\ Len(before) <= Len(after)
                        /\ SubSeq(after, 1, Len(before)) = before]_vars

\* C27 witness: two sends on one session were at the provider together and
\* both returned: the transcript seen after the first return, the pair of
\* that send, begins the transcript of four turns seen now.
C27_Witness ==
    /\ pc[1] = "done" /\ pc[2] = "done"
    /\ ukey[1] = ukey[2]
    /\ sent[2] = <<HumanMessage(2)>>
    /\ returned = <<2, 1>>
    /\ Transcript(cache, heap, ukey[1], now)
           = <<HumanMessage(2), AIMessage(2), HumanMessage(1), AIMessage(1)>>

----------------------------------------------------------------------------
\* C28: no retry by the chat route.  A send awaits generate_response at most
\* once; when that call raises the send has failed for good and awaits
\* nothing more; a send that is rejected as invalid, or whose lookup raised,
\* awaits nothing at all.
C28_NoRetry ==
    [][/\ \A c \in Calls :
             /\ Len(invoked'[c]) <= 1
             /\ pc'[c] \in {"idle", "error"} => invoked'[c] = <<>>
             /\ pc'[c] \in {"waiting", "done", "failed"} => Len(invoked'[c]) = 1
             /\ pc[c] = "failed" => pc'[c] = "failed" /\ invoked'[c] = invoked[c]
             /\ (pc[c] = "waiting" /\ pc'[c] # "waiting")
                    => pc'[c] \in {"done", "failed"} /\ invoked'[c] = invoked[c]
       /\ \A n \in MessageLengths :
             (~ValidMessage(n) /\ PostChat(n)) => invoked' = invoked /\ pc' = pc]_vars

\* C28 witness: the provider call of the first send raised; the send ended
\* as failed after its one call, and a later send on the session went through
\* with its own single call.
C28_Witness ==
    /\ pc[1] = "failed" /\ Len(invoked[1]) = 1
    /\ pc[2] = "done" /\ Len(invoked[2]) = 1
    /\ ukey[2] = ukey[1] /\ memory[2] = memory[1]
    /\ heap[memory[1]] = <<HumanMessage(2), AIMessage(2)>>
    /\ pc[3] = "idle" /\ invoked[3] = <<>>

----------------------------------------------------------------------------
\* C29: a live key is evicted under live capacity pressure only.  When a send
\* inserts its key, a key that is live at that time leaves the cache only if
\* the live keys number MAX_CACHE_SIZE, and then one key leaves; with fewer
\* live keys every one of them keeps its link, however many expired links the
\* cache still holds; and the expired links are gone after the insertion.
C29_LiveCapacityPressure ==
    [][\A c \in Calls :
           (/\ pc[c] = "idle" /\ pc'[c] = "waiting"
            /\ Len(heap') = Len(heap) + 1)
               => /\ Evicted # {} => Cardinality(LiveKeys(cache, now')) = MAX_CACHE_SIZE
                  /\ Cardinality(Evicted) <= 1
                  /\ Cardinality(LiveKeys(cache, now')) < MAX_CACHE_SIZE
                         => \A k \in LiveKeys(cache, now') :
                                HasKey(cache', k) /\ Entry(cache', k) = Entry(cache, k)
                  /\ \A j \in 1..Len(cache') : Fresh(cache'[j], now')]_vars

\* C29 witness: three sends inserted three keys, the second at time 1 and
\* the third at time 2, when a key inserted at time 0 has expired: the second
\* key, live when the third was inserted, is still there, with the third, and
\* no expired link is left.
C29_Witness ==
    /\ now = 2
    /\ Len(heap) = 3
    /\ \A c \in Calls : pc[c] = "waiting" /\ memory[c] = c
    /\ ukey[1] # ukey[2] /\ ukey[2] # ukey[3] /\ ukey[1] # ukey[3]
    /\ Len(cache) = 2
    /\ cache[1] = [key |-> ukey[2], expires |-> ExpiresAt(1), obj |-> 2]
    /\ cache[2] = [key |-> ukey[3], expires |-> ExpiresAt(2), obj |-> 3]
    /\ Len(lookups) = 2

----------------------------------------------------------------------------
\* C30: bounded lifetime from creation.  A key inserted at time t is found by
\* no lookup from time t + ttl_seconds on, however often it was looked up or
\* appended to since; the turns a lookup can see at any time were all saved
\* to an object that was inserted less than ttl_seconds ago.
C30_BoundedLifetime ==
    /\ \A i \in 1..Len(accessed) :
           now >= accessed[i].created + MEMORY_TTL_SECONDS
               => /\ ~TTLCache_contains(cache, accessed[i].key, now)
                  /\ Transcript(cache, heap, accessed[i].key, now) = <<>>
                  /\ accessed[i].key \notin LiveKeys(cache, now)
    /\ \A k \in Keys :
           Transcript(cache, heap, k, now) # <<>>
               => \E i \in 1..Len(accessed) :
                      /\ accessed[i].key = k
                      /\ now - accessed[i].created < MEMORY_TTL_SECONDS
                      /\ Entry(cache, k).expires = accessed[i].created + MEMORY_TTL_SECONDS

\* C30 witness: a key was inserted at time 0, and looked up and appended to
\* at time 1; at time 2 = 0 + ttl_seconds its link is still in the cache with
\* the pairs saved, and no lookup finds it.
C30_Witness ==
    /\ now = MEMORY_TTL_SECONDS
    /\ \E i \in 1..Len(accessed) :
           /\ accessed[i].created = 0
           /\ accessed[i].at = 1
           /\ HasKey(cache, accessed[i].key)
           /\ ~TTLCache_contains(cache, accessed[i].key, now)
           /\ Len(heap[Entry(cache, accessed[i].key).obj]) = 4

====
